---- MODULE Spec2Model ----
(***************************************************************************)
(* Model of timelog.py: the Period value type, quantize, Period.merge,     *)
(* Stat.make / Months / LongestSession and the __main__ pipeline.          *)
(*                                                                         *)
(* Time values.  A timedelta is [s, us]: whole seconds (days folded into   *)
(* seconds) and microseconds normalised to 0..999999, as datetime          *)
(* normalises them.  A datetime is [s, us, off]: wall-clock seconds since  *)
(* 2020-01-01T00:00:00 in its own UTC offset, microseconds, and the UTC    *)
(* offset in seconds.  Aware datetimes compare and subtract by their UTC   *)
(* value; calendar fields (hour, month, ...) are read from the wall clock. *)
(***************************************************************************)
EXTENDS Integers, Sequences, FiniteSets, TLC

VARIABLES pc, args, rest, current, period, yielded, ret

vars == <<pc, args, rest, current, period, yielded, ret>>

\* Bounds of the model
MaxLen == 3
MaxStart == 3
MaxDur == 2

\* Python's None and a raised exception
None == [none |-> TRUE]

Raise(e) == [error |-> e]

IsError(x) == "error" \in DOMAIN x

IsPeriod(x) == "start" \in DOMAIN x

\* ---- datetime.timedelta / datetime.datetime arithmetic ------------------
Micro == 1000000

TD(s, us) == [s |-> s, us |-> us]

DT(s, us, off) == [s |-> s, us |-> us, off |-> off]

TDNorm(s, us) == [s |-> s + (us \div Micro), us |-> us % Micro]

TDAdd(a, b) == TDNorm(a.s + b.s, a.us + b.us)

TDLt(a, b) == a.s < b.s \/ (a.s = b.s /\ a.us < b.us)

TDLe(a, b) == a.s < b.s \/ (a.s = b.s /\ a.us <= b.us)

Utc(d) == [s |-> d.s - d.off, us |-> d.us]

DTAdd(d, td) == LET n == TDNorm(d.s + td.s, d.us + td.us) IN DT(n.s, n.us, d.off)

DTSubTD(d, td) == LET n == TDNorm(d.s - td.s, d.us - td.us) IN DT(n.s, n.us, d.off)

DTDiff(a, b) == TDNorm((a.s - a.off) - (b.s - b.off), a.us - b.us)

DTLt(a, b) == TDLt(Utc(a), Utc(b))

DTLe(a, b) == TDLe(Utc(a), Utc(b))

DTEq(a, b) == Utc(a) = Utc(b)

\* max written wrongly: always the second argument
DTSecond(a, b) == b

\* builtin max(a, b): the first argument unless the second is greater
DTMax(a, b) == IF DTLt(a, b) THEN b ELSE a

\* ---- class Period -------------------------------------------------------
ZERO == TD(0, 0)

HOUR == TD(3600, 0)

DAY == TD(86400, 0)

\* Period.__new__ without the check that end is not before start
PeriodNoEndCheck(start, duration, end_) ==
  IF duration # None /\ TDLt(duration, ZERO)
  THEN Raise("ValueError: duration must not be negative")
  ELSE LET end1 == IF duration # None /\ end_ = None THEN DTAdd(start, duration) ELSE end_
           duration1 == IF end1 # None /\ duration = None
                        THEN DTDiff(end1, start) ELSE duration
       IN IF duration1 = None
          THEN Raise("ValueError: Must provide end or duration")
          ELSE IF ~DTEq(DTAdd(start, duration1), end1)
               THEN Raise("ValueError: duration must match end - start")
               ELSE [start |-> start, duration |-> duration1]

\* Period.__new__(start, duration, end=end)
Period(start, duration, end_) ==
  IF duration # None /\ TDLt(duration, ZERO)
  THEN Raise("ValueError: duration must not be negative")
  ELSE LET end1 == IF duration # None /\ end_ = None THEN DTAdd(start, duration) ELSE end_
       IN IF end1 # None /\ DTLt(end1, start)
          THEN Raise("ValueError: end must be >= start")
          ELSE LET duration1 == IF end1 # None /\ duration = None
                                THEN DTDiff(end1, start) ELSE duration
               IN IF duration1 = None
                  THEN Raise("ValueError: Must provide end or duration")
                  ELSE IF ~DTEq(DTAdd(start, duration1), end1)
                       THEN Raise("ValueError: duration must match end - start")
                       ELSE [start |-> start, duration |-> duration1]

\* Period.end
end(p) == DTAdd(p.start, p.duration)

\* Period.replace(start=, duration=, end=)
replace(self, start, duration, end_) ==
  LET start1 == IF start = None THEN self.start ELSE start
      duration1 == IF duration = None /\ end_ = None THEN self.duration ELSE duration
  IN Period(start1, duration1, end_)

\* Period.__eq__
PeriodEq(p, q) == DTEq(p.start, q.start) /\ p.duration = q.duration

\* ---- Period.merge -------------------------------------------------------
\* the loop body with > in place of >= in the merge condition
MergeBodyStrict(cur, p, max_gap) ==
  LET first == IF DTLe(cur.start, p.start) THEN cur ELSE p
      second == IF DTLe(cur.start, p.start) THEN p ELSE cur
  IN IF DTLt(second.start, DTAdd(end(first), max_gap))
     THEN [current |-> replace(first, None, None, DTMax(end(first), end(second))),
           yield |-> <<>>]
     ELSE [current |-> p, yield |-> <<cur>>]

\* the loop body with the gap measured from first.start in place of first.end
MergeBodyFromStart(cur, p, max_gap) ==
  LET first == IF DTLe(cur.start, p.start) THEN cur ELSE p
      second == IF DTLe(cur.start, p.start) THEN p ELSE cur
  IN IF DTLe(second.start, DTAdd(first.start, max_gap))
     THEN [current |-> replace(first, None, None, DTMax(end(first), end(second))),
           yield |-> <<>>]
     ELSE [current |-> p, yield |-> <<cur>>]

\* One pass of the for loop body: the new accumulator and what is yielded.
MergeBody(cur, p, max_gap) ==
  LET first == IF DTLe(cur.start, p.start) THEN cur ELSE p
      second == IF DTLe(cur.start, p.start) THEN p ELSE cur
  IN IF DTLe(second.start, DTAdd(end(first), max_gap))
     THEN [current |-> replace(first, None, None, DTMax(end(first), end(second))),
           yield |-> <<>>]
     ELSE [current |-> p, yield |-> <<cur>>]

\* The generator, from the first next() on.  It is suspended wherever it has
\* yielded (pc = "yield" at the yield of the loop, pc = "last" at the final
\* yield) and runs on only when its consumer asks for the next value.

\* periods = iter(periods); current = next(periods), or return on StopIteration
MergeBegin ==
  /\ pc = "merge"
  /\ IF rest = <<>>
     THEN /\ pc' = "done"
          /\ UNCHANGED <<rest, current>>
     ELSE /\ pc' = "loop"
          /\ current' = Head(rest)
          /\ rest' = Tail(rest)
  /\ UNCHANGED <<args, period, yielded, ret>>

\* for period in periods: merge period into current, or yield current and
\* suspend there with current not yet replaced
MergeStep ==
  /\ pc = "loop"
  /\ rest # <<>>
  /\ period' = Head(rest)
  /\ rest' = Tail(rest)
  /\ LET b == MergeBody(current, Head(rest), args.max_gap)
     IN IF b.yield = <<>>
        THEN /\ current' = b.current
             /\ pc' = IF IsError(b.current) THEN "raised" ELSE "loop"
             /\ UNCHANGED yielded
        ELSE /\ yielded' = yielded \o b.yield
             /\ pc' = "yield"
             /\ UNCHANGED current
  /\ UNCHANGED <<args, ret>>

\* resumed after the yield of the loop: current = period
MergeResume ==
  /\ pc = "yield"
  /\ current' = period
  /\ pc' = "loop"
  /\ UNCHANGED <<args, rest, period, yielded, ret>>

\* the input is exhausted: yield current and suspend at the final yield
MergeEnd ==
  /\ pc = "loop"
  /\ rest = <<>>
  /\ yielded' = Append(yielded, current)
  /\ pc' = "last"
  /\ UNCHANGED <<args, rest, current, period, ret>>

\* resumed after the final yield: the generator returns
MergeReturn ==
  /\ pc = "last"
  /\ pc' = "done"
  /\ UNCHANGED <<args, rest, current, period, yielded, ret>>

\* Period.merge as a whole: everything it yields, and the exception that
\* escapes the generator (None when it returns).
RECURSIVE MergeFrom(_, _, _, _)
MergeFrom(cur, ps, max_gap, out) ==
  IF ps = <<>>
  THEN [yielded |-> Append(out, cur), raised |-> None]
  ELSE LET b == MergeBody(cur, Head(ps), max_gap)
       IN IF IsError(b.current)
          THEN [yielded |-> out, raised |-> b.current]
          ELSE MergeFrom(b.current, Tail(ps), max_gap, out \o b.yield)

merge(periods, max_gap) ==
  IF periods = <<>>
  THEN [yielded |-> <<>>, raised |-> None]
  ELSE MergeFrom(Head(periods), Tail(periods), max_gap, <<>>)

\* ---- inputs of the merge specification ------------------------------------
SeqsUpTo(S, n) == UNION {[1..k -> S] : k \in 0..n}

MergeStarts == {DT(s, 0, 0) : s \in 0..MaxStart}

MergeDurations == {TD(d, 0) : d \in 0..MaxDur}

MergePeriods == {[start |-> st, duration |-> d] : st \in MergeStarts, d \in MergeDurations}

MergeGaps == {TD(-2, 0), TD(-1, 0), ZERO, TD(1, 0), TD(1, Micro - 1)}

Init ==
  /\ pc = "merge"
  /\ args \in [periods : SeqsUpTo(MergePeriods, MaxLen), max_gap : MergeGaps]
  /\ rest = args.periods
  /\ current = None
  /\ yielded = <<>>
  /\ period = None
  /\ ret = None

Next == MergeBegin \/ MergeStep \/ MergeResume \/ MergeEnd \/ MergeReturn

Spec == Init /\ [][Next]_vars

\* ---- properties of Period.merge (specification Spec) ----------------------
Sorted(ps) == \A i \in 1..(Len(ps) - 1) : DTLe(ps[i].start, ps[i + 1].start)

TimePoints == {DT(t, 0, 0) : t \in 0..(MaxStart + MaxDur + 1)}

Covered(ps) ==
  {t \in TimePoints : \E i \in 1..Len(ps) : DTLe(ps[i].start, t) /\ DTLt(t, end(ps[i]))}

\* C1: for input sorted by start and any max_gap G, no two consecutive yielded
\* periods a, b satisfy a.end + G >= b.start.
MergeMaximal ==
  Sorted(args.periods) =>
    \A i \in 1..(Len(yielded) - 1) :
      ~DTLe(yielded[i + 1].start, DTAdd(end(yielded[i]), args.max_gap))

MergeMaximalWitness ==
  /\ pc = "done"
  /\ Sorted(args.periods)
  /\ Len(args.periods) = 3
  /\ Len(yielded) = 2
  /\ args.max_gap = TD(1, 0)

\* C2 as stated: for sorted input and every max_gap (negative included) the
\* yielded periods ascend by start and never overlap (a.end <= b.start).
MergeNeverOverlaps ==
  Sorted(args.periods) =>
    \A i \in 1..(Len(yielded) - 1) :
      /\ DTLe(yielded[i].start, yielded[i + 1].start)
      /\ DTLe(end(yielded[i]), yielded[i + 1].start)

\* C2 amended: for sorted input the yielded periods ascend by start for every
\* max_gap, and they never overlap when max_gap >= 0.
MergeNoOverlapNonNegativeGap ==
  Sorted(args.periods) =>
    \A i \in 1..(Len(yielded) - 1) :
      /\ DTLe(yielded[i].start, yielded[i + 1].start)
      /\ TDLe(ZERO, args.max_gap) => DTLe(end(yielded[i]), yielded[i + 1].start)

MergeNoOverlapWitness ==
  /\ pc = "done"
  /\ Sorted(args.periods)
  /\ args.max_gap = ZERO
  /\ Len(yielded) = 2
  /\ \E i \in 1..2 : TDLt(args.periods[i].duration, yielded[1].duration)

\* C3: with max_gap = 0 and sorted input, the time covered by the yielded
\* periods is exactly the time covered by the input; empty input yields nothing.
MergeConserves ==
  (pc = "done" /\ args.max_gap = ZERO /\ Sorted(args.periods)) =>
    /\ Covered(yielded) = Covered(args.periods)
    /\ args.periods = <<>> => yielded = <<>>

MergeConservesWitness ==
  /\ pc = "done"
  /\ args.max_gap = ZERO
  /\ Sorted(args.periods)
  /\ Len(args.periods) = 3
  /\ Len(yielded) = 1
  /\ Cardinality(Covered(yielded)) = 4

\* ---- quantize --------------------------------------------------------------
\* timedelta % timedelta for a divisor of whole seconds: the remainder takes
\* the sign of the divisor; a zero divisor raises ZeroDivisionError.
TDMod(a, b) ==
  IF b.s > 0
  THEN TD(a.s % b.s, a.us)
  ELSE LET m == TD(a.s % (0 - b.s), a.us)
       IN IF m = ZERO THEN ZERO ELSE TDAdd(m, b)

\* from_midnight without microseconds=dt.microsecond
FromMidnightNoMicros(dt) == TD(dt.s % DAY.s, 0)

\* timedelta(hours=dt.hour, minutes=dt.minute, seconds=dt.second,
\*           microseconds=dt.microsecond)
FromMidnight(dt) == TD(dt.s % DAY.s, dt.us)

\* quantize without its assertion
quantizeUnchecked(dt, resolution) ==
  IF resolution = ZERO
  THEN Raise("ZeroDivisionError")
  ELSE Period(DTSubTD(dt, TDMod(FromMidnight(dt), resolution)), resolution, None)

quantize(dt, resolution) ==
  IF resolution = ZERO
  THEN Raise("ZeroDivisionError")
  ELSE IF TDMod(DAY, resolution) # ZERO
       THEN Raise("AssertionError")
       ELSE Period(DTSubTD(dt, TDMod(FromMidnight(dt), resolution)), resolution, None)

\* the default resolution of quantize
QuarterHour == TD(900, 0)

\* Inputs: instants on MaxDay + 1 days of January 2020 in three UTC offsets,
\* and resolutions of whole seconds, valid and invalid.
MaxDay == 1

Offsets == {0, 3600, 0 - 18000}

QSeconds == {0, 899, 900, 33125, 86399}

QMicros == {0, 1, Micro - 1}

QInstants ==
  {DT(d * DAY.s + s, us, off) : d \in 0..MaxDay, s \in QSeconds, us \in QMicros, off \in Offsets}

QResolutions ==
  {ZERO, TD(0 - 900, 0), TD(0 - 420, 0), TD(1, 0), TD(420, 0), QuarterHour, HOUR,
   TD(43200, 0), DAY, TD(100000, 0), TD(172800, 0)}

InitQuantize ==
  /\ pc = "quantize"
  /\ args \in [dt : QInstants, resolution : QResolutions]
  /\ rest = <<>>
  /\ current = None
  /\ yielded = <<>>
  /\ period = None
  /\ ret = None

Quantize ==
  /\ pc = "quantize"
  /\ ret' = quantize(args.dt, args.resolution)
  /\ pc' = "done"
  /\ UNCHANGED <<period, args, rest, current, yielded>>

NextQuantize == Quantize

SpecQuantize == InitQuantize /\ [][NextQuantize]_vars

\* 0 < R < 1 day and R divides one day evenly
ValidResolution(r) == TDLt(ZERO, r) /\ TDLt(r, DAY) /\ TDMod(DAY, r) = ZERO

Midnight(dt) == DT(dt.s - (dt.s % DAY.s), 0, dt.off)

\* C4: for a valid resolution R, p = quantize(t, R) has p.start <= t < p.end,
\* p.duration = R, p.start a whole number of R after midnight of t, and
\* quantizing p.start again gives the same start.
QuantizeGrid ==
  (pc = "done" /\ ValidResolution(args.resolution)) =>
    /\ IsPeriod(ret)
    /\ DTLe(ret.start, args.dt)
    /\ DTLt(args.dt, end(ret))
    /\ ret.duration = args.resolution
    /\ DTLe(Midnight(args.dt), ret.start)
    /\ TDMod(DTDiff(ret.start, Midnight(args.dt)), args.resolution) = ZERO
    /\ quantize(ret.start, args.resolution) = ret

QuantizeGridWitness ==
  /\ pc = "done"
  /\ args.resolution = QuarterHour
  /\ args.dt = DT(DAY.s + 33125, Micro - 1, 3600)
  /\ ret = [start |-> DT(DAY.s + 32400, 0, 3600), duration |-> QuarterHour]

\* C6 as stated: every invalid resolution makes quantize fail its assertion.
QuantizeRejectsInvalid ==
  (pc = "done" /\ ~ValidResolution(args.resolution)) => ret = Raise("AssertionError")

\* C6 amended: quantize fails its assertion exactly for the nonzero resolutions
\* that do not divide one day evenly (every resolution above one day is one);
\* a zero resolution fails with ZeroDivisionError, a negative resolution that
\* divides one day fails in Period construction with ValueError, and a
\* resolution of exactly one day is accepted and gives the Period of the whole
\* calendar day.
QuantizeInvalidOutcome ==
  (pc = "done" /\ ~ValidResolution(args.resolution)) =>
    IF args.resolution = ZERO
    THEN ret = Raise("ZeroDivisionError")
    ELSE IF TDMod(DAY, args.resolution) # ZERO
         THEN ret = Raise("AssertionError")
         ELSE IF TDLt(args.resolution, ZERO)
              THEN ret = Raise("ValueError: duration must not be negative")
              ELSE /\ args.resolution = DAY
                   /\ ret = [start |-> Midnight(args.dt), duration |-> DAY]

QuantizeInvalidWitness ==
  /\ pc = "done"
  /\ args.resolution = TD(420, 0)
  /\ ret = Raise("AssertionError")

\* ---- constructing and replacing Periods -------------------------------------
\* Inputs: starts and ends up to MaxInstant seconds (one of them in another UTC
\* offset), durations from -1 second up to MaxDur seconds, each argument
\* possibly None.
MaxInstant == 2

PInstants == {DT(s, 0, 0) : s \in 0..MaxInstant} \cup {DT(3601, 0, 3600), DT(1, 1, 0)}

PDurations == {TD(d, 0) : d \in (0 - 1)..MaxDur} \cup {TD(0 - 1, Micro - 1), TD(0, 1)}

Optional(S) == S \cup {None}

InitPeriod ==
  /\ pc = "new"
  /\ args \in [start : PInstants, duration : Optional(PDurations), end : Optional(PInstants)]
  /\ rest = <<>>
  /\ current = None
  /\ yielded = <<>>
  /\ period = None
  /\ ret = None

\* Period(start, duration, end=end); args keeps the arguments of the call
New ==
  /\ pc = "new"
  /\ ret' = Period(args.start, args.duration, args.end)
  /\ pc' = "made"
  /\ UNCHANGED <<period, args, rest, current, yielded>>

\* period.replace(start=, duration=, end=) on a constructed Period; current
\* keeps the Period it was called on, args the arguments the call passes on to
\* the constructor
Replace ==
  /\ pc = "made"
  /\ IsPeriod(ret)
  /\ \E start \in Optional(PInstants), duration \in Optional(PDurations),
        end_ \in Optional(PInstants) :
       /\ ret' = replace(ret, start, duration, end_)
       /\ args' = [start |-> IF start = None THEN ret.start ELSE start,
                   duration |-> IF duration = None /\ end_ = None
                                THEN ret.duration ELSE duration,
                   end |-> end_]
  /\ current' = ret
  /\ pc' = "replaced"
  /\ UNCHANGED <<period, rest, yielded>>

NextPeriod == New \/ Replace

SpecPeriod == InitPeriod /\ [][NextPeriod]_vars

ConstructionErrors ==
  {Raise("ValueError: duration must not be negative"),
   Raise("ValueError: end must be >= start"),
   Raise("ValueError: Must provide end or duration"),
   Raise("ValueError: duration must match end - start")}

\* C5: construction fails when duration < 0, when end < start, when duration
\* and end are both given and start + duration # end, and when neither is
\* given; every Period constructed, directly or through replace, has
\* duration >= 0 and end = start + duration >= start.
PeriodInvariants ==
  pc \in {"made", "replaced"} =>
    /\ (args.duration # None /\ TDLt(args.duration, ZERO)) => ret \in ConstructionErrors
    /\ (args.end # None /\ DTLt(args.end, args.start)) => ret \in ConstructionErrors
    /\ (args.duration # None /\ args.end # None
          /\ ~DTEq(DTAdd(args.start, args.duration), args.end)) => ret \in ConstructionErrors
    /\ (args.duration = None /\ args.end = None) => ret \in ConstructionErrors
    /\ ret \in ConstructionErrors \/ IsPeriod(ret)
    /\ IsPeriod(ret) =>
         /\ TDLe(ZERO, ret.duration)
         /\ DTLe(ret.start, end(ret))
         /\ ret.start = args.start
         /\ args.end # None => DTEq(end(ret), args.end)
         /\ args.duration # None => ret.duration = args.duration

PeriodInvariantsWitness ==
  /\ pc = "replaced"
  /\ IsPeriod(current)
  /\ args.end # None
  /\ args.duration = None
  /\ DTLt(args.end, args.start)
  /\ ret = Raise("ValueError: end must be >= start")

\* ---- calendar fields of a datetime (wall clock, year 2020) ---------------------
\* day of the year 2020 on which each month starts, counted from 0
MonthStart == <<0, 31, 60, 91, 121, 152, 182, 213, 244, 274, 305, 335>>

Year(dt) == 2020 + ((dt.s \div DAY.s) \div 366)

Month(dt) == Cardinality({m \in 1..12 : MonthStart[m] <= (dt.s \div DAY.s) % 366})

\* ---- count_hours, take, itertools.groupby ------------------------------------
\* A number of hours is kept exact, as the ratio of a timedelta to HOUR.
Hours(td) == [num |-> td, den |-> HOUR]

RECURSIVE SumDurations(_)
SumDurations(ps) ==
  IF ps = <<>> THEN ZERO ELSE TDAdd(Head(ps).duration, SumDurations(Tail(ps)))

count_hours(periods) == Hours(SumDurations(periods))

Min(a, b) == IF a < b THEN a ELSE b

take(n, iterable) == SubSeq(iterable, 1, Min(n, Len(iterable)))

\* groupby(periods, key): one [key, group] per run of consecutive equal keys;
\* the key of a group is the key of its first element (== on keys is
\* transitive here, so comparing neighbours finds the same runs).  ks is the sequence of
\* keys of ps and eq[i] tells whether ks[i] = ks[i+1].
GroupRuns(ps, ks, eq) ==
  LET n == Len(ps)
      starts == {i \in 1..n : i = 1 \/ ~eq[i - 1]}
      nth(k) == CHOOSE i \in starts : Cardinality({j \in starts : j <= i}) = k
      stop(k) == IF k = Cardinality(starts) THEN n ELSE nth(k + 1) - 1
  IN [k \in 1..Cardinality(starts) |->
        [key |-> ks[nth(k)], group |-> SubSeq(ps, nth(k), stop(k))]]

\* ---- class Stat and its configurations ----------------------------------------
DigitChar(d) == <<"0", "1", "2", "3", "4", "5", "6", "7", "8", "9">>[d + 1]

\* Stat.key / Months.key
Key(cls, p) ==
  IF cls = "Months" THEN <<Year(p.start), Month(p.start)>> ELSE p

\* == on two keys
KeyEq(cls, a, b) == IF cls = "Months" THEN a = b ELSE PeriodEq(a, b)

\* Period.__str__: '[start] to [end] (duration)', each part by its fields
PeriodStr(p) == <<"[", p.start, "] to [", end(p), "] (", p.duration, ")">>

\* Stat.fmt_key = str / Months.fmt_key = '{}-{:02}'.format
FmtKey(cls, key) ==
  IF cls = "Months"
  THEN <<DigitChar(key[1] \div 1000), DigitChar((key[1] \div 100) % 10),
         DigitChar((key[1] \div 10) % 10), DigitChar(key[1] % 10), "-",
         DigitChar(key[2] \div 10), DigitChar(key[2] % 10)>>
  ELSE PeriodStr(key)

\* groupby with the key of the class
Grouped(cls, periods) ==
  LET ks == [i \in 1..Len(periods) |-> Key(cls, periods[i])]
      eq == [i \in 1..(Len(periods) - 1) |-> KeyEq(cls, ks[i], ks[i + 1])]
  IN GroupRuns(periods, ks, eq)

\* d[k] = v on a dict kept as the sequence of its items in insertion order
DictSet(d, k, v) ==
  IF \E i \in 1..Len(d) : d[i].key = k
  THEN [i \in 1..Len(d) |-> IF d[i].key = k THEN [key |-> k, value |-> v] ELSE d[i]]
  ELSE Append(d, [key |-> k, value |-> v])

\* {fmt_key(key): aggregate(group) for key, group in grouped}
RECURSIVE DictOf(_, _, _)
DictOf(cls, grouped, d) ==
  IF grouped = <<>>
  THEN d
  ELSE DictOf(cls, Tail(grouped),
              DictSet(d, FmtKey(cls, Head(grouped).key), count_hours(Head(grouped).group)))

\* A class attribute limit is None or an int, kept as [int |-> n]; `if limit:`
\* holds for an int other than 0.
Truthy(limit) == limit # None /\ limit.int # 0

\* Stat.make for a class with the given key, fmt_key and limit
make(cls, limit, periods) ==
  LET grouped == Grouped(cls, periods)
      capped == IF Truthy(limit) THEN take(limit.int, grouped) ELSE grouped
  IN DictOf(cls, capped, <<>>)

\* Inputs: up to MaxPeriods periods, in any order, out of four quarter hours of
\* which two are in January and two in February 2020.
MaxPeriods == 4

MaxLimit == 2

StatPeriods ==
  {[start |-> DT(32400, 0, 0), duration |-> QuarterHour],
   [start |-> DT(33300, 0, 0), duration |-> QuarterHour],
   [start |-> DT(31 * DAY.s, 0, 0), duration |-> QuarterHour],
   [start |-> DT(31 * DAY.s + 900, 0, 3600), duration |-> HOUR]}

InitStat ==
  /\ pc = "make"
  /\ args \in [cls : {"Stat", "Months"}, limit : {None} \cup {[int |-> n] : n \in 0..MaxLimit},
               periods : SeqsUpTo(StatPeriods, MaxPeriods)]
  /\ rest = <<>>
  /\ current = None
  /\ yielded = <<>>
  /\ period = None
  /\ ret = None

\* cls.make(periods); yielded keeps the groups that groupby produced
StatMake ==
  /\ pc = "make"
  /\ yielded' = Grouped(args.cls, args.periods)
  /\ ret' = make(args.cls, args.limit, args.periods)
  /\ pc' = "done"
  /\ UNCHANGED <<period, args, rest, current>>

NextStat == StatMake

SpecStat == InitStat /\ [][NextStat]_vars

\* C7: every maximal run of consecutive equal keys is a group of its own, and
\* the result of make holds one aggregated entry per group (after the cap), in
\* encounter order; keys A, A, B, A give three entries.
StatOneEntryPerGroup ==
  pc = "done" =>
    LET groups == IF Truthy(args.limit) THEN take(args.limit.int, yielded) ELSE yielded
    IN /\ Len(ret) = Len(groups)
       /\ \A i \in 1..Len(ret) :
            /\ ret[i].key = FmtKey(args.cls, groups[i].key)
            /\ ret[i].value = count_hours(groups[i].group)

\* ---- the canonical working set: sorted(set(map(quantize, dates)), key=by_start) --
\* set(): the first of several equal Periods is the one kept
RECURSIVE Dedupe(_, _)
Dedupe(ps, seen) ==
  IF ps = <<>>
  THEN seen
  ELSE IF \E i \in 1..Len(seen) : PeriodEq(seen[i], Head(ps))
       THEN Dedupe(Tail(ps), seen)
       ELSE Dedupe(Tail(ps), Append(seen, Head(ps)))

\* sorted(..., key=Period.by_start): a stable sort by start
RECURSIVE SortByStart(_)
SortByStart(ps) ==
  IF ps = <<>>
  THEN <<>>
  ELSE LET sorted == SortByStart(SubSeq(ps, 1, Len(ps) - 1))
           last == ps[Len(ps)]
           k == Cardinality({i \in 1..Len(sorted) : DTLe(sorted[i].start, last.start)})
       IN SubSeq(sorted, 1, k) \o <<last>> \o SubSeq(sorted, k + 1, Len(sorted))

QuarterHours(dates) ==
  SortByStart(Dedupe([i \in 1..Len(dates) |-> quantize(dates[i], QuarterHour)], <<>>))

\* ---- class LongestSession -------------------------------------------------------
\* a max_gap of two full quarter hours
MaxGapTwoSlots == TD(1800, 0)

\* a max_gap of just under one quarter hour
MaxGapOneSlot == TD(899, Micro - 1)

\* LongestSession.max_gap = timedelta(minutes=30, microseconds=-1)
LongestSessionMaxGap == TD(1799, Micro - 1)

\* max(merged, key=Period.by_duration, default=None): the first of the longest
MaxByDuration(merged) ==
  IF merged = <<>>
  THEN None
  ELSE merged[CHOOSE i \in 1..Len(merged) :
                /\ \A j \in 1..Len(merged) : TDLe(merged[j].duration, merged[i].duration)
                /\ \A j \in 1..(i - 1) : TDLt(merged[j].duration, merged[i].duration)]

\* LongestSession.make
LongestSessionMake(periods) ==
  LET merged == merge(periods, LongestSessionMaxGap)
  IN IF merged.raised # None THEN merged.raised ELSE MaxByDuration(merged.yielded)

\* Inputs: any set of the NumSlots quarter-hour slots from 09:00 on 2020-01-01,
\* one raw timestamp in each, given in ascending order.
NumSlots == 10

NineOClock == 9 * HOUR.s

SlotStart(i) == DT(NineOClock + i * QuarterHour.s, 0, 0)

RECURSIVE SlotDates(_, _)
SlotDates(slots, i) ==
  IF i >= NumSlots
  THEN <<>>
  ELSE (IF i \in slots THEN <<DTAdd(SlotStart(i), TD(7 * i, i))>> ELSE <<>>)
         \o SlotDates(slots, i + 1)

InitSession ==
  /\ pc = "session"
  /\ args \in [slots : SUBSET (0..(NumSlots - 1))]
  /\ rest = QuarterHours(SlotDates(args.slots, 0))
  /\ current = None
  /\ yielded = <<>>
  /\ period = None
  /\ ret = None

\* LongestSession.make(quarter_hours); yielded keeps what Period.merge yields
Session ==
  /\ pc = "session"
  /\ yielded' = merge(rest, LongestSessionMaxGap).yielded
  /\ ret' = LongestSessionMake(rest)
  /\ pc' = "done"
  /\ UNCHANGED <<period, args, rest, current>>

NextSession == Session

SpecSession == InitSession /\ [][NextSession]_vars

\* slot i lies inside the merged period m
InSession(m, i) == DTLe(m.start, SlotStart(i)) /\ DTLe(SlotStart(i + 1), end(m))

SameSession(i, j) == \E k \in 1..Len(yielded) : InSession(yielded[k], i) /\ InSession(yielded[k], j)

\* i < j are slots of the input with no slot of the input between them
ConsecutiveSlots(i, j) ==
  /\ i \in args.slots
  /\ j \in args.slots
  /\ i < j
  /\ \A k \in (i + 1)..(j - 1) : k \notin args.slots

\* C8: two consecutive slots are in the same merged session iff at most one
\* empty slot lies between them; the result is a merged period at least as long
\* as every other one, and None iff the input is empty; slots 09:00..10:45 give
\* 09:00-11:00 (2 hours), slots 09:00 and 10:00 give a quarter-hour session.
LongestSessionResult ==
  pc = "done" =>
    /\ \A i, j \in args.slots :
         ConsecutiveSlots(i, j) => (SameSession(i, j) <=> j - i - 1 <= 1)
    /\ ret = None <=> args.slots = {}
    /\ ret # None =>
         /\ \E k \in 1..Len(yielded) : yielded[k] = ret
         /\ \A k \in 1..Len(yielded) : TDLe(yielded[k].duration, ret.duration)
    /\ args.slots = 0..7 => ret = [start |-> SlotStart(0), duration |-> TD(2 * HOUR.s, 0)]
    /\ args.slots = {0, 4} => count_hours(<<ret>>) = Hours(QuarterHour)

LongestSessionWitness ==
  /\ pc = "done"
  /\ args.slots = {0, 2, 5, 6, 7, 8}
  /\ Len(yielded) = 2
  /\ ret = [start |-> SlotStart(5), duration |-> HOUR]

\* C9 as stated: two slots with one or more empty slots between them are never
\* merged into the same session.
SkippedSlotBreaksSession ==
  pc = "done" =>
    \A i, j \in args.slots : (ConsecutiveSlots(i, j) /\ SameSession(i, j)) => j = i + 1

\* C9 amended: the reference max_gap merges slots that are adjacent on the grid
\* or have exactly one empty slot between them, and treats two or more skipped
\* slots as a real break: no session contains two empty slots in a row, and
\* between one session and the next at least two slots are empty.
TwoSkippedSlotsBreakSession ==
  pc = "done" =>
    /\ \A k \in 1..Len(yielded) : \A i \in 0..(NumSlots - 2) :
         (InSession(yielded[k], i) /\ InSession(yielded[k], i + 1))
           => (i \in args.slots \/ i + 1 \in args.slots)
    /\ \A k \in 1..(Len(yielded) - 1) :
         TDLe(TD(2 * QuarterHour.s, 0), DTDiff(yielded[k + 1].start, end(yielded[k])))
    /\ \A i \in args.slots : \E k \in 1..Len(yielded) : InSession(yielded[k], i)

TwoSkippedSlotsWitness ==
  /\ pc = "done"
  /\ args.slots = {1, 3, 6}
  /\ yielded = <<[start |-> SlotStart(1), duration |-> TD(3 * QuarterHour.s, 0)],
                 [start |-> SlotStart(6), duration |-> QuarterHour]>>

\* ---- the __main__ pipeline ------------------------------------------------------
\* Inputs: up to MaxDates raw instants, in any order, around 09:00 on
\* 2020-01-01 and around the turn of the month to February, in two UTC offsets.
MaxDates == 3

RawInstants ==
  {DT(NineOClock, 0, 0), DT(NineOClock + 300, 0, 0), DT(NineOClock + 600, 0, 0),
   DT(NineOClock + 3600, 0, 0), DT(NineOClock + 3600, 0, 3600),
   DT(31 * DAY.s, 0, 0), DT(31 * DAY.s - 900, 0, 0 - 18000), DT(31 * DAY.s + 18000, 0, 0)}

InitMain ==
  /\ pc = "main"
  /\ args \in [dates : SeqsUpTo(RawInstants, MaxDates)]
  /\ rest = <<>>
  /\ current = None
  /\ yielded = <<>>
  /\ period = None
  /\ ret = None

\* quarter_hours = sorted(set(map(quantize, dates)), key=Period.by_start), then
\* the statistics over it; yielded keeps quarter_hours
Main ==
  /\ pc = "main"
  /\ yielded' = QuarterHours(args.dates)
  /\ ret' = [Months |-> make("Months", None, QuarterHours(args.dates)),
             LongestSession |-> LongestSessionMake(QuarterHours(args.dates))]
  /\ pc' = "done"
  /\ UNCHANGED <<period, args, rest, current>>

NextMain == Main

SpecMain == InitMain /\ [][NextMain]_vars

\* the grid slots hit by the raw instants, as UTC starts
SlotsHit == {Utc(quantize(args.dates[i], QuarterHour).start) : i \in 1..Len(args.dates)}

RECURSIVE SumValues(_)
SumValues(d) ==
  IF d = <<>> THEN ZERO ELSE TDAdd(Head(d).value.num, SumValues(Tail(d)))

\* C10: quantize + set + sort yields exactly one Period per distinct grid slot
\* hit, in strictly ascending start order, and the values of Months summed over
\* all keys are (number of distinct slots) x 0.25 hours; three timestamps in the
\* 09:00 slot of 2020-01-01 give {"2020-01": 0.25}.
CanonicalSlotsCounted ==
  pc = "done" =>
    /\ \A i \in 1..(Len(yielded) - 1) : DTLt(yielded[i].start, yielded[i + 1].start)
    /\ {Utc(yielded[i].start) : i \in 1..Len(yielded)} = SlotsHit
    /\ Len(yielded) = Cardinality(SlotsHit)
    /\ \A i \in 1..Len(yielded) : yielded[i].duration = QuarterHour
    /\ SumValues(ret.Months) = TD(Cardinality(SlotsHit) * QuarterHour.s, 0)
    /\ args.dates = <<DT(NineOClock, 0, 0), DT(NineOClock + 600, 0, 0), DT(NineOClock + 300, 0, 0)>>
         => /\ yielded = <<[start |-> DT(NineOClock, 0, 0), duration |-> QuarterHour]>>
            /\ ret.Months = <<[key |-> <<"2", "0", "2", "0", "-", "0", "1">>,
                               value |-> Hours(QuarterHour)]>>

====
